---- MODULE Spec2Model ----
(***************************************************************************)
(* Package session: signed session identifiers (NewSessionID, ValidateID)   *)
(* and the redis-backed session store (RedisStore.Save, Get, Delete).      *)
(*                                                                         *)
(* Byte slices are sequences of integers 0..255, Go strings are sequences  *)
(* of one-character strings (token text) or of bytes (signing keys).       *)
(* A 32-bit word is a pair <<high 16 bits, low 16 bits>>.                  *)
(***************************************************************************)
EXTENDS Integers, Sequences, FiniteSets, TLC

(***************************************************************************)
(* Bit operations on natural numbers.                                      *)
(***************************************************************************)
RECURSIVE BitXorWidth(_, _, _)
\* the xor of a and b, both below 2 ^ n: bit by bit
BitXorWidth(a, b, n) ==
  IF n = 0 THEN 0
  ELSE ((a + b) % 2) + 2 * BitXorWidth(a \div 2, b \div 2, n - 1)

RECURSIVE BitAndWidth(_, _, _)
BitAndWidth(a, b, n) ==
  IF n = 0 THEN 0
  ELSE ((a % 2) * (b % 2)) + 2 * BitAndWidth(a \div 2, b \div 2, n - 1)

\* the xor and the and of two 4-bit digits
xorDigits == [a \in 0..15 |-> [b \in 0..15 |-> BitXorWidth(a, b, 4)]]

andDigits == [a \in 0..15 |-> [b \in 0..15 |-> BitAndWidth(a, b, 4)]]

\* a ^ b on 16 bits, one 4-bit digit at a time
BitXor(a, b) ==
  xorDigits[a % 16][b % 16]
    + 16 * xorDigits[(a \div 16) % 16][(b \div 16) % 16]
    + 256 * xorDigits[(a \div 256) % 16][(b \div 256) % 16]
    + 4096 * xorDigits[(a \div 4096) % 16][(b \div 4096) % 16]

\* a & b on 16 bits, one 4-bit digit at a time
BitAnd(a, b) ==
  andDigits[a % 16][b % 16]
    + 16 * andDigits[(a \div 16) % 16][(b \div 16) % 16]
    + 256 * andDigits[(a \div 256) % 16][(b \div 256) % 16]
    + 4096 * andDigits[(a \div 4096) % 16][(b \div 4096) % 16]

WXor(x, y) == <<BitXor(x[1], y[1]), BitXor(x[2], y[2])>>

WAnd(x, y) == <<BitAnd(x[1], y[1]), BitAnd(x[2], y[2])>>

WNot(x) == <<65535 - x[1], 65535 - x[2]>>

WAdd(x, y) ==
  LET lo == x[2] + y[2]
      hi == x[1] + y[1] + (lo \div 65536)
  IN  <<hi % 65536, lo % 65536>>

\* rotate right by n, 0 < n < 16
RotRSmall(x, n) ==
  LET p == 2 ^ n
      q == 2 ^ (16 - n)
  IN  <<(x[1] \div p) + ((x[2] % p) * q), (x[2] \div p) + ((x[1] % p) * q)>>

\* bits.RotateLeft32(x, -n), 0 < n < 32
RotR(x, n) ==
  IF n = 16 THEN <<x[2], x[1]>>
  ELSE IF n > 16 THEN RotRSmall(<<x[2], x[1]>>, n - 16)
  ELSE RotRSmall(x, n)

\* x >> n, 0 < n < 16
ShR(x, n) ==
  LET p == 2 ^ n
      q == 2 ^ (16 - n)
  IN  <<x[1] \div p, (x[2] \div p) + ((x[1] % p) * q)>>

(***************************************************************************)
(* crypto/sha256 (FIPS 180-4), as sha256.New() computes it.                *)
(***************************************************************************)
sha256K ==
  <<
    <<17034, 12184>>, <<28983, 17553>>, <<46528, 64463>>, <<59829, 56229>>,
    <<14678, 49755>>, <<23025, 4593>>, <<37439, 33444>>, <<43804, 24277>>,
    <<55303, 43672>>, <<4739, 23297>>, <<9265, 34238>>, <<21772, 32195>>,
    <<29374, 23924>>, <<32990, 45566>>, <<39900, 1703>>, <<49563, 61812>>,
    <<58523, 27073>>, <<61374, 18310>>, <<4033, 40390>>, <<9228, 41420>>,
    <<11753, 11375>>, <<19060, 33962>>, <<23728, 43484>>, <<30457, 35034>>,
    <<38974, 20818>>, <<43057, 50797>>, <<45059, 10184>>, <<48985, 32711>>,
    <<50912, 3059>>, <<54695, 37191>>, <<1738, 25425>>, <<5161, 10599>>,
    <<10167, 2693>>, <<11803, 8504>>, <<19756, 28156>>, <<21304, 3347>>,
    <<25866, 29524>>, <<30314, 2747>>, <<33218, 51502>>, <<37490, 11397>>,
    <<41663, 59553>>, <<43034, 26187>>, <<49739, 35696>>, <<51052, 20899>>,
    <<53650, 59417>>, <<54937, 1572>>, <<62478, 13701>>, <<4202, 41072>>,
    <<6564, 49430>>, <<7735, 27656>>, <<10056, 30540>>, <<13488, 48309>>,
    <<14620, 3251>>, <<20184, 43594>>, <<23452, 51791>>, <<26670, 28659>>,
    <<29839, 33518>>, <<30885, 25455>>, <<33992, 30740>>, <<36039, 520>>,
    <<37054, 65530>>, <<42064, 27883>>, <<48889, 41975>>, <<50801, 30962>>
  >>

sha256Init ==
  <<
    <<27145, 58983>>, <<47975, 44677>>, <<15470, 62322>>, <<42319, 62778>>,
    <<20750, 21119>>, <<39685, 26764>>, <<8067, 55723>>, <<23520, 52505>>
  >>

\* the message followed by 0x80, zero bytes and its length in bits (64-bit
\* big endian), a multiple of 64 bytes long
Sha256Pad(msg) ==
  LET bits == Len(msg) * 8
  IN  msg \o <<128>> \o [i \in 1..((55 - Len(msg)) % 64) |-> 0]
          \o <<0, 0, 0, 0, (bits \div 16777216) % 256, (bits \div 65536) % 256,
               (bits \div 256) % 256, bits % 256>>

\* the 16 big-endian words of a 64-byte block
BlockWords(p) ==
  [i \in 1..16 |-> <<(p[4 * i - 3] * 256) + p[4 * i - 2], (p[4 * i - 1] * 256) + p[4 * i]>>]

SmallSigma0(x) == WXor(WXor(RotR(x, 7), RotR(x, 18)), ShR(x, 3))

SmallSigma1(x) == WXor(WXor(RotR(x, 17), RotR(x, 19)), ShR(x, 10))

BigSigma0(x) == WXor(WXor(RotR(x, 2), RotR(x, 13)), RotR(x, 22))

BigSigma1(x) == WXor(WXor(RotR(x, 6), RotR(x, 11)), RotR(x, 25))

\* w grown by n words, the first half of them before the second; a word
\* w[t] comes from the words before it, t = Len(w) + 1 > 16
RECURSIVE Sha256ScheduleGrow(_, _)
Sha256ScheduleGrow(w, n) ==
  IF n <= 0 \/ Len(w) >= 64 THEN w
  ELSE IF n = 1
  THEN Append(w,
         WAdd(WAdd(SmallSigma1(w[Len(w) - 1]), w[Len(w) - 6]),
              WAdd(SmallSigma0(w[Len(w) - 14]), w[Len(w) - 15])))
  ELSE Sha256ScheduleGrow(Sha256ScheduleGrow(w, n \div 2), n - (n \div 2))

\* the message schedule w[1..64], grown from the 16 words of the block
Sha256Schedule(w) == Sha256ScheduleGrow(w, 64 - Len(w))

Ch(e, f, g) == WXor(WAnd(e, f), WAnd(WNot(e), g))

Maj(a, b, c) == WXor(WXor(WAnd(a, b), WAnd(a, c)), WAnd(b, c))

\* one round on s = <<a, b, c, d, e, f, g, h>>:
\* t1 := h + Sigma1(e) + Ch(e, f, g) + k + w; t2 := Sigma0(a) + Maj(a, b, c)
Sha256T1(s, k, w) ==
  WAdd(WAdd(WAdd(s[8], BigSigma1(s[5])), WAdd(Ch(s[5], s[6], s[7]), k)), w)

Sha256T2(s) == WAdd(BigSigma0(s[1]), Maj(s[1], s[2], s[3]))

\* h = g; g = f; f = e; e = d + t1; d = c; c = b; b = a; a = t1 + t2
Sha256Shift(s, t1, t2) ==
  <<WAdd(t1, t2), s[1], s[2], s[3], WAdd(s[4], t1), s[5], s[6], s[7]>>

Sha256Round(s, k, w) == Sha256Shift(s, Sha256T1(s, k, w), Sha256T2(s))

\* the rounds lo..hi on s, the first half of them before the second
RECURSIVE Sha256RoundsSpan(_, _, _, _)
Sha256RoundsSpan(s, w, lo, hi) ==
  IF lo > hi \/ Len(s) # 8 THEN s
  ELSE IF lo = hi THEN Sha256Round(s, sha256K[lo], w[lo])
  ELSE Sha256RoundsSpan(Sha256RoundsSpan(s, w, lo, (lo + hi) \div 2), w,
                        ((lo + hi) \div 2) + 1, hi)

\* the rounds t..64 on s
Sha256Rounds(s, w, t) ==
  IF Len(w) # 64 THEN s ELSE Sha256RoundsSpan(s, w, t, 64)

\* block(dig, p): fold the 64-byte blocks of p into the digest state h
\* h0 += a, ..., h7 += h
Sha256AddState(h, s) ==
  <<WAdd(h[1], s[1]), WAdd(h[2], s[2]), WAdd(h[3], s[3]), WAdd(h[4], s[4]),
    WAdd(h[5], s[5]), WAdd(h[6], s[6]), WAdd(h[7], s[7]), WAdd(h[8], s[8])>>

RECURSIVE Sha256Blocks(_, _)
Sha256Blocks(h, p) ==
  IF Len(p) < 64 \/ Len(h) # 8 THEN h
  ELSE Sha256Blocks(
         Sha256AddState(h, Sha256Rounds(h, Sha256Schedule(BlockWords(SubSeq(p, 1, 64))), 1)),
         SubSeq(p, 65, Len(p)))

WordBytes(x) == <<x[1] \div 256, x[1] % 256, x[2] \div 256, x[2] % 256>>

\* the digest state as 32 bytes, big endian
DigestBytes(h) ==
  WordBytes(h[1]) \o WordBytes(h[2]) \o WordBytes(h[3]) \o WordBytes(h[4])
    \o WordBytes(h[5]) \o WordBytes(h[6]) \o WordBytes(h[7]) \o WordBytes(h[8])

\* sha256.Sum256: 32 bytes
Sha256Sum(msg) == DigestBytes(Sha256Blocks(sha256Init, Sha256Pad(msg)))

(***************************************************************************)
(* crypto/hmac (RFC 2104) over SHA-256: hmac.New(sha256.New, key),         *)
(* Write(msg), Sum(nil).  A key longer than the 64-byte block is hashed    *)
(* first; the key is then padded with zero bytes to the block size.        *)
(***************************************************************************)
ZeroPad(k) == [i \in 1..64 |-> IF i <= Len(k) THEN k[i] ELSE 0]

HmacBlockKey(key) == ZeroPad(IF Len(key) > 64 THEN Sha256Sum(key) ELSE key)

\* the block key with every byte xored with c (0x36 inner, 0x5c outer)
XorPad(k, c) == [i \in 1..64 |-> BitXor(k[i], c)]

\* the inner sum, over the inner pad and the message
HmacInner(k, msg) == Sha256Sum(XorPad(k, 54) \o msg)

\* the outer sum, over the outer pad and the inner sum
HmacOuter(k, inner) ==
  IF Len(inner) # 32 THEN inner ELSE Sha256Sum(XorPad(k, 92) \o inner)

HmacSum(k, msg) == HmacOuter(k, HmacInner(k, msg))

HmacSha256(key, msg) == HmacSum(HmacBlockKey(key), msg)

(***************************************************************************)
(* encoding/base64, URLEncoding (padded, not strict).                      *)
(***************************************************************************)
encodeURL ==
  <<"A", "B", "C", "D", "E", "F", "G", "H", "I", "J", "K", "L", "M",
    "N", "O", "P", "Q", "R", "S", "T", "U", "V", "W", "X", "Y", "Z",
    "a", "b", "c", "d", "e", "f", "g", "h", "i", "j", "k", "l", "m",
    "n", "o", "p", "q", "r", "s", "t", "u", "v", "w", "x", "y", "z",
    "0", "1", "2", "3", "4", "5", "6", "7", "8", "9", "-", "_">>

StdPadding == "="

\* the characters a token text of the model is made of
Chars == {encodeURL[i] : i \in 1..64} \cup {StdPadding, "!", "+", "/", " ", "\n", "\r"}

\* the decoder's table: the 6-bit value of a character of the alphabet, 255
\* for any other character
decodeMap ==
  [c \in Chars |->
     IF \E i \in 1..64 : encodeURL[i] = c
     THEN (CHOOSE i \in 1..64 : encodeURL[i] = c) - 1
     ELSE 255]

\* EncodedLen(n) with padding
EncodedLen(n) == ((n + 2) \div 3) * 4

\* Encoding.EncodeToString: each 3 bytes give 4 characters; a tail of 1 or 2
\* bytes gives 2 or 3 characters and is padded with = to 4
EncodeToString(src) ==
  LET srcLen  == Len(src)
      at(i)   == IF i <= srcLen THEN src[i] ELSE 0
      dst(j)  ==
        LET si == (((j - 1) \div 4) * 3) + 1
            b1 == at(si)
            b2 == at(si + 1)
            b3 == at(si + 2)
        IN  CASE (j - 1) % 4 = 0 -> encodeURL[(b1 \div 4) + 1]
              [] (j - 1) % 4 = 1 -> encodeURL[((b1 % 4) * 16) + (b2 \div 16) + 1]
              [] (j - 1) % 4 = 2 ->
                   IF si + 1 > srcLen THEN StdPadding
                   ELSE encodeURL[((b2 % 16) * 4) + (b3 \div 64) + 1]
              [] OTHER ->
                   IF si + 2 > srcLen THEN StdPadding ELSE encodeURL[(b3 % 64) + 1]
  IN  SubSeq([j \in 1..EncodedLen(srcLen) |-> dst(j)], 1, EncodedLen(srcLen))

\* the padding characters that end a text: 0, 1 or 2
PadCount(src) ==
  IF Len(src) < 4 \/ src[Len(src)] # StdPadding THEN 0
  ELSE IF src[Len(src) - 1] # StdPadding THEN 1
  ELSE 2

\* the decoding of a text without line breaks: [err, b]. The text is made
\* of quanta of 4 characters of the alphabet; only the last quantum may end
\* in one or two padding characters, and the bits of its last character
\* that no byte takes are ignored
DecodeQuanta(src) ==
  LET srcLen == Len(src)
      pad    == PadCount(src)
      dstLen == ((srcLen \div 4) * 3) - pad
      val(i) == decodeMap[src[i]]
      dst(k) ==
        LET si == (((k - 1) \div 3) * 4) + 1
        IN  CASE (k - 1) % 3 = 0 -> (val(si) * 4) + (val(si + 1) \div 16)
              [] (k - 1) % 3 = 1 -> ((val(si + 1) % 16) * 16) + (val(si + 2) \div 4)
              [] OTHER -> ((val(si + 2) % 4) * 64) + val(si + 3)
  IN  IF srcLen % 4 # 0 \/ \E i \in 1..(srcLen - pad) : val(i) = 255
      THEN [err |-> TRUE, b |-> <<>>]
      ELSE [err |-> FALSE, b |-> SubSeq([k \in 1..dstLen |-> dst(k)], 1, dstLen)]

IsLineBreak(c) == c = "\n" \/ c = "\r"

\* Encoding.DecodeString: line breaks are skipped; [err, b] with err a
\* CorruptInputError or none
DecodeString(str) ==
  LET d == DecodeQuanta(SelectSeq(str, LAMBDA c : ~IsLineBreak(c)))
  IN  IF d.err THEN [err |-> TRUE, b |-> <<>>] ELSE d

(***************************************************************************)
(* The signer: NewSessionID, ValidateID and their helpers.                 *)
(***************************************************************************)
VARIABLES
  generatedSID,  \* the package variable generatedSID
  issued,        \* the identifiers NewSessionID has returned, each with its key
  minted,        \* the call of NewSessionID that returned last, with its results
  validated      \* the call of ValidateID that returned last, with its results

signerVars == <<generatedSID, issued, minted, validated>>

\* InvalidSessionID, the empty string
InvalidSessionID == <<>>

idLength == 32

\* the error values: nil, errors.New("not signing key"), the error of
\* rand.Read, base64.CorruptInputError, errors.New("hmac not equal")
NoError == "nil"
ErrNotSigningKey == "not signing key"
ErrRandRead == "rand.Read failed"
ErrCorruptInput == "illegal base64 data"
ErrHmacNotEqual == "hmac not equal"

NoPanic == "none"
PanicSliceBounds == "runtime error: slice bounds out of range"

\* the signing keys of the model, as bytes: "", "k", "j" and "k\x00"
SigningKeys == {<<>>, <<107>>, <<106>>, <<107, 0>>}

\* what rand.Read may fill the buffer with (or fail)
RandomDraws ==
  {[i \in 1..idLength |-> ((37 * i) + 11) % 256], [i \in 1..idLength |-> 255 - i]}

RandReadFailure == <<"rand.Read", "error">>

\* GenerateRandomBytes(n), rnd being what rand.Read does: [b, err]
GenerateRandomBytes(cnt, rnd) ==
  IF rnd = RandReadFailure THEN [b |-> <<>>, err |-> ErrRandRead]
  ELSE [b |-> SubSeq(rnd, 1, cnt), err |-> NoError]

\* buf := new(bytes.Buffer); b := buf.Bytes(): the bytes of a new buffer
NewBufferBytes == <<>>

\* h.Sum(nil) after h.Write(b), for each signing key of the model
hmacSums == [key \in SigningKeys |-> HmacSha256(key, NewBufferBytes)]

\* fault: hmac.New(sha256.New, nil), the key left out of the signature
GenerateRandomHMACNilKey(signingKey) == hmacSums[<<>>]

GenerateRandomHMAC(signingKey) == hmacSums[signingKey]

\* fault: NewSessionID without the check of the signing key's length
NewSessionIDNoKeyCheck(signingKey, rnd) ==
  LET randByte == GenerateRandomBytes(idLength, rnd)
  IN  IF randByte.err # NoError
      THEN [sid |-> InvalidSessionID, err |-> randByte.err, randRead |-> idLength,
            assigned |-> FALSE]
      ELSE [sid |-> EncodeToString(randByte.b \o GenerateRandomHMAC(signingKey)),
            err |-> NoError, randRead |-> idLength, assigned |-> TRUE]

\* NewSessionID(signingKey), rnd being what rand.Read does:
\* [sid, err, randRead (the bytes asked of rand.Read), assigned (whether
\* generatedSID = sid was executed)]
NewSessionID(signingKey, rnd) ==
  IF Len(signingKey) = 0
  THEN [sid |-> InvalidSessionID, err |-> ErrNotSigningKey, randRead |-> 0,
        assigned |-> FALSE]
  ELSE
    LET randByte == GenerateRandomBytes(idLength, rnd)
        combined == randByte.b \o GenerateRandomHMAC(signingKey)
        sid      == EncodeToString(combined)
    IN  IF randByte.err # NoError
        THEN [sid |-> InvalidSessionID, err |-> randByte.err, randRead |-> idLength,
              assigned |-> FALSE]
        ELSE [sid |-> sid, err |-> NoError, randRead |-> idLength, assigned |-> TRUE]

\* DecodeSessionID(sid): [b, err]
DecodeSessionID(sid) ==
  LET d == DecodeString(sid)
  IN  IF d.err THEN [b |-> <<>>, err |-> ErrCorruptInput]
      ELSE [b |-> d.b, err |-> NoError]

\* IdHasMutated(id)
IdHasMutated(id) == generatedSID = id

\* hmac.Equal: equal lengths and equal bytes
HmacEqual(mac1, mac2) == mac1 = mac2

ErrIdHasMutated == "id has mutated"

\* fault: ValidateID with the check of IdHasMutated that the source has
\* commented out
ValidateIDIfNotMutated(id, signingKey) ==
  LET decodedID == DecodeSessionID(id)
  IN  IF ~IdHasMutated(id)
      THEN [sid |-> InvalidSessionID, err |-> ErrIdHasMutated, panic |-> NoPanic]
      ELSE IF decodedID.err # NoError
      THEN [sid |-> InvalidSessionID, err |-> decodedID.err, panic |-> NoPanic]
      ELSE IF Len(decodedID.b) < idLength
      THEN [sid |-> InvalidSessionID, err |-> NoError, panic |-> PanicSliceBounds]
      ELSE IF HmacEqual(SubSeq(decodedID.b, idLength + 1, Len(decodedID.b)),
                        GenerateRandomHMAC(signingKey))
      THEN [sid |-> id, err |-> NoError, panic |-> NoPanic]
      ELSE [sid |-> InvalidSessionID, err |-> ErrHmacNotEqual, panic |-> NoPanic]

\* fault: ValidateID comparing decodedID[:idLength], the random component,
\* with the signature
ValidateIDHead(id, signingKey) ==
  LET decodedID == DecodeSessionID(id)
  IN  IF decodedID.err # NoError
      THEN [sid |-> InvalidSessionID, err |-> decodedID.err, panic |-> NoPanic]
      ELSE IF Len(decodedID.b) < idLength
      THEN [sid |-> InvalidSessionID, err |-> NoError, panic |-> PanicSliceBounds]
      ELSE IF HmacEqual(SubSeq(decodedID.b, 1, idLength), GenerateRandomHMAC(signingKey))
      THEN [sid |-> id, err |-> NoError, panic |-> NoPanic]
      ELSE [sid |-> InvalidSessionID, err |-> ErrHmacNotEqual, panic |-> NoPanic]

\* ValidateID(id, signingKey): [sid, err, panic]; the slice expression
\* decodedID[idLength:] panics when fewer than idLength bytes were decoded
ValidateID(id, signingKey) ==
  LET decodedID == DecodeSessionID(id)
  IN  IF decodedID.err # NoError
      THEN [sid |-> InvalidSessionID, err |-> decodedID.err, panic |-> NoPanic]
      ELSE IF Len(decodedID.b) < idLength
      THEN [sid |-> InvalidSessionID, err |-> NoError, panic |-> PanicSliceBounds]
      ELSE IF HmacEqual(SubSeq(decodedID.b, idLength + 1, Len(decodedID.b)),
                        GenerateRandomHMAC(signingKey))
      THEN [sid |-> id, err |-> NoError, panic |-> NoPanic]
      ELSE [sid |-> InvalidSessionID, err |-> ErrHmacNotEqual, panic |-> NoPanic]

(***************************************************************************)
(* The redis-backed store: RedisStore.Save, Get and Delete, against a      *)
(* redis server that other clients use too and that drops a key when its   *)
(* time to live has passed.                                                *)
(***************************************************************************)
VARIABLES
  redisData,   \* the server's keyspace: the entry of each key
  redisUp,     \* whether the server can be reached
  storeCalls,  \* per goroutine, the call of the store that waits for the
               \* server: its command or pipeline and the replies so far
  storeStarted, \* the number of calls of the store so far
  sessionOut,  \* per goroutine, the value the sessionState it passes points to
  storeRet,    \* the call of the store that returned in the last step
  saved,       \* history: per SID, the state of the last Save that has not
               \* been deleted, overwritten by another client or expired since
  idle         \* history: per SID, the ticks since the entry was last written
               \* or refreshed, counted up to SessionDuration

storeVars ==
  <<redisData, redisUp, storeCalls, storeStarted, sessionOut, storeRet, saved, idle>>

\* the request handlers' state
VARIABLES
  handlerRet,  \* the handler call that ended in the last step
  inflight,    \* per goroutine, the handler call that waits for the server
  started      \* the number of handler calls so far

sessionVars == <<handlerRet, inflight, started>>

\* rs.SessionDuration, in ticks of the server's clock
SessionDuration == 2

\* the goroutines that call the store and serve requests
Goroutines == {"A", "B"}

\* the calls of the store in a run
MaxStoreCalls == 3

\* the session identifiers the store is called with
StoreSIDs == {<<"s", "1">>, <<"s", "2">>}

\* getRedisKey(): string(sid), without a prefix
\* fault: one key for every SID
getRedisKeyShared(sid) == <<"s", "i", "d">>

getRedisKey(sid) == sid

ErrStateNotFound == "no session state was found in the session store"

\* redis.Nil, the reply to GET of a key that has no entry
RedisNil == "redis: nil"
ErrDial == "dial tcp: connection refused"
ErrUnsupportedType == "json: unsupported type"
ErrJsonSyntax == "json: invalid character"

\* session states: values of a struct{ X int `json:"x"` }, and a channel,
\* which encoding/json does not support
StructState(x) == [kind |-> "struct", x |-> x]
ChanState == [kind |-> "chan", x |-> 0]
SessionStates == {StructState(1), StructState(2)}
SavedStates == SessionStates \cup {ChanState}

\* the zero value the caller's sessionState points to before Get
ZeroState == StructState(0)

Digits == <<"0", "1", "2", "3", "4", "5", "6", "7", "8", "9">>

\* the text before and after the digit in {"x":1}
JsonHead == <<"{", "\"", "x", "\"", ":">>
JsonTail == <<"}">>

\* json.Marshal(sessionState): [b, err]
Marshal(v) ==
  IF v.kind # "struct" THEN [b |-> <<>>, err |-> ErrUnsupportedType]
  ELSE [b |-> JsonHead \o <<Digits[v.x + 1]>> \o JsonTail, err |-> NoError]

IsDigit(c) == \E i \in 1..Len(Digits) : Digits[i] = c

DigitValue(c) == (CHOOSE i \in 1..Len(Digits) : Digits[i] = c) - 1

\* json.Unmarshal(data, sessionState): [v, err]; v is what sessionState
\* points to afterwards, given that it pointed to old
Unmarshal(data, old) ==
  IF /\ Len(data) = Len(JsonHead) + 1 + Len(JsonTail)
     /\ SubSeq(data, 1, Len(JsonHead)) = JsonHead
     /\ IsDigit(data[Len(JsonHead) + 1])
     /\ SubSeq(data, Len(JsonHead) + 2, Len(data)) = JsonTail
  THEN [v |-> StructState(DigitValue(data[Len(JsonHead) + 1])), err |-> NoError]
  ELSE [v |-> old, err |-> ErrJsonSyntax]

\* a value another application put under the same key
ForeignValue == <<"o", "t", "h", "e", "r">>

NoEntry == [present |-> FALSE, val |-> <<>>, ttl |-> 0]

\* the server's commands on a keyspace db: SET key val EX d, DEL key,
\* GET key (its reply), EXPIRE key d (the keyspace after, and its reply)
RedisSet(db, k, val, d) == [db EXCEPT ![k] = [present |-> TRUE, val |-> val, ttl |-> d]]

\* fault: a removal that empties the whole database
RedisDelAll(db, k) == [x \in DOMAIN db |-> NoEntry]

RedisDel(db, k) == [db EXCEPT ![k] = NoEntry]

RedisGet(db, k) ==
  IF db[k].present THEN [val |-> db[k].val, err |-> NoError]
  ELSE [val |-> <<>>, err |-> RedisNil]

RedisExpire(db, k, d) == IF db[k].present THEN [db EXCEPT ![k].ttl = d] ELSE db

RedisExpireReply(db, k) == db[k].present

\* one tick of the server's clock: a key whose time to live has passed is
\* dropped
RedisTick(db) ==
  [k \in DOMAIN db |->
     IF ~db[k].present THEN NoEntry
     ELSE IF db[k].ttl <= 1 THEN NoEntry
     ELSE [db[k] EXCEPT !.ttl = @ - 1]]

NoReply == [val |-> <<>>, err |-> NoError]

\* no Save on record for a SID
NoSave == [kind |-> "none", x |-> 0]

\* use: ticks since the last Save or the read of the last successful Get;
\* any: ticks since the last write or refresh of the key by anyone;
\* expired: the entry was removed by expiry and not written since
NeverUsed == [use |-> SessionDuration, any |-> SessionDuration, expired |-> FALSE]

JustUsed == [use |-> 0, any |-> 0, expired |-> FALSE]

Older(c) == IF c < SessionDuration THEN c + 1 ELSE SessionDuration

\* a goroutine that is in no call of the store; one that is, is in op and
\* waits for the server: pc is "sent" (its commands are on the way), "read"
\* (a pipeline's GET has run) or "done" (the reply is on the way back).
\* ttlBefore, ttlAfter: the entry's time to live before and after the
\* pipeline's EXPIRE (0 when there is no entry); expected: the Save on record
\* for the SID when the pipeline's GET ran
NoPipe ==
  [op |-> "none", pc |-> "idle", sid |-> <<>>, state |-> ZeroState, getReply |-> NoReply,
   expireReply |-> FALSE, absent |-> FALSE, outBefore |-> ZeroState, ttlBefore |-> 0,
   ttlAfter |-> 0, expected |-> NoSave]

\* outBefore, out: what the caller's sessionState points to when it calls
\* Get and when Get has returned
NoReturn ==
  [op |-> "none", sid |-> <<>>, err |-> NoError, state |-> ZeroState, reached |-> FALSE,
   absent |-> FALSE, expireReply |-> FALSE, outBefore |-> ZeroState, out |-> ZeroState,
   ttlBefore |-> 0, ttlAfter |-> 0, key |-> <<>>, expected |-> NoSave]

(***************************************************************************)
(* What a client may present to ValidateID: an identifier it was issued,   *)
(* as it is or with one bit of its decoded bytes changed, or another text. *)
(***************************************************************************)
\* the bits a client changes: in the random component (bits 0..255) and in
\* the signature (bits 256..511), bit 0 being the top bit of the first byte
TamperBits == {0, 105, 255, 256, 389, 511}

\* no bit changed
NoTamper == {}

FlipBit(b, bit) ==
  [b EXCEPT ![(bit \div 8) + 1] = BitXor(@, 2 ^ (7 - (bit % 8)))]

\* decode, change one bit, encode again
TamperSID(sid, bit) == EncodeToString(FlipBit(DecodeString(sid).b, bit))

\* "not-base64!!", "AA==", "", and texts that decode to 40, 32 and 66 bytes
MalformedSIDs ==
  { <<"n", "o", "t", "-", "b", "a", "s", "e", "6", "4", "!", "!">>,
    <<"A", "A", "=", "=">>,
    <<>>,
    EncodeToString([i \in 1..40 |-> i]),
    EncodeToString([i \in 1..idLength |-> i]),
    EncodeToString([i \in 1..idLength |-> i] \o GenerateRandomHMAC(<<107>>) \o <<0, 0>>) }

\* a text no NewSessionID call of the model returns, made by a holder of the
\* key "k": 32 bytes followed by the signature under "k"
ForgedSIDs == {EncodeToString([i \in 1..idLength |-> i] \o GenerateRandomHMAC(<<107>>))}

OtherSIDs == MalformedSIDs \cup ForgedSIDs

\* NewSessionID on every key and outcome of rand.Read of the model
newSessionIDResults ==
  [key \in SigningKeys, rnd \in RandomDraws \cup {RandReadFailure} |-> NewSessionID(key, rnd)]

MintableSIDs ==
  {newSessionIDResults[key, rnd].sid : key \in SigningKeys \ {<<>>}, rnd \in RandomDraws}

tamperedSIDs == [sid \in MintableSIDs, bit \in TamperBits |-> TamperSID(sid, bit)]

PresentedSIDs ==
  MintableSIDs \cup OtherSIDs
    \cup {tamperedSIDs[sid, bit] : sid \in MintableSIDs, bit \in TamperBits}

\* the tokens of the requests: identifiers issued under the keys "k" and
\* "j", the forged one and the malformed ones
SessionTokens ==
  {newSessionIDResults[key, rnd].sid : key \in {<<107>>, <<106>>}, rnd \in RandomDraws}
    \cup OtherSIDs

\* ValidateID on every text and key of the model
validateIDResults ==
  [id \in PresentedSIDs, key \in SigningKeys |-> ValidateID(id, key)]

NoOrigin == [sid |-> InvalidSessionID, key |-> <<>>]

\* no call of NewSessionID, of ValidateID yet
NotMinted ==
  [called |-> FALSE, key |-> <<>>, sid |-> InvalidSessionID, err |-> NoError, randRead |-> 0]

NotValidated ==
  [called |-> FALSE, id |-> <<>>, key |-> <<>>, sid |-> InvalidSessionID, err |-> NoError,
   panic |-> NoPanic, origin |-> NoOrigin, bits |-> NoTamper]

\* a panic that nothing recovers ends the process
Panicked == validated.panic # NoPanic

\* the number of identifiers issued in a behaviour
MaxIssued == 2

InitSigner ==
  /\ generatedSID = InvalidSessionID
  /\ issued = {}
  /\ minted = NotMinted
  /\ validated = NotValidated

\* a call of NewSessionID(signingKey)
NewSessionIDCall ==
  \E signingKey \in SigningKeys, rnd \in RandomDraws \cup {RandReadFailure} :
    LET r == newSessionIDResults[signingKey, rnd]
        new == IF r.err = NoError THEN {[sid |-> r.sid, key |-> signingKey]} ELSE {}
    IN  /\ ~Panicked
        /\ Cardinality(issued \cup new) <= MaxIssued
        /\ generatedSID' = IF r.assigned THEN r.sid ELSE generatedSID
        /\ issued' = issued \cup new
        /\ minted' = [NotMinted EXCEPT !.called = TRUE, !.key = signingKey, !.sid = r.sid,
                                       !.err = r.err, !.randRead = r.randRead]
        /\ UNCHANGED <<validated, storeVars, sessionVars>>

ValidateIDReturn(id, signingKey, origin, bits) ==
  LET r == validateIDResults[id, signingKey]
  IN  /\ validated' = [NotValidated EXCEPT !.called = TRUE, !.id = id, !.key = signingKey,
                                        !.sid = r.sid, !.err = r.err, !.panic = r.panic,
                                        !.origin = origin, !.bits = bits]
      /\ UNCHANGED <<generatedSID, issued, minted, storeVars, sessionVars>>

\* a call of ValidateID on an issued identifier, as it is
ValidateIssued ==
  \E tok \in issued, signingKey \in SigningKeys :
    ~Panicked /\ ValidateIDReturn(tok.sid, signingKey, tok, NoTamper)

\* a call of ValidateID on an issued identifier with one bit changed, with
\* the key it was issued under
ValidateTampered ==
  \E tok \in issued, bit \in TamperBits :
    ~Panicked /\ ValidateIDReturn(tamperedSIDs[tok.sid, bit], tok.key, tok, {bit})

\* a call of ValidateID on a text that no NewSessionID returned
ValidateOther ==
  \E id \in OtherSIDs, signingKey \in SigningKeys :
    ~Panicked /\ ValidateIDReturn(id, signingKey, NoOrigin, NoTamper)

(***************************************************************************)
(* The store's operations, the server's steps and the other clients.       *)
(***************************************************************************)
InitStore ==
  /\ redisData = [k \in {getRedisKey(sid) : sid \in StoreSIDs \cup SessionTokens} |-> NoEntry]
  /\ redisUp = TRUE
  /\ storeCalls = [p \in Goroutines |-> NoPipe]
  /\ storeStarted = 0
  /\ sessionOut = [p \in Goroutines |-> ZeroState]
  /\ storeRet = NoReturn
  /\ saved = [sid \in StoreSIDs |-> NoSave]
  /\ idle = [sid \in StoreSIDs |-> NeverUsed]

\* a goroutine may call the store
MayCall(p) ==
  /\ storeCalls[p].pc = "idle"
  /\ storeStarted < MaxStoreCalls

\* RedisStore.Save(sid, sessionState) is called: json.Marshal's error is
\* returned; else Client.Set sends SET and waits for the reply. With the
\* server out of reach Client.Set fails at once, its result is dropped and
\* Save returns nil
Save ==
  \E p \in Goroutines, sid \in StoreSIDs, sessionState \in SavedStates :
    /\ MayCall(p)
    /\ storeStarted' = storeStarted + 1
    /\ IF Marshal(sessionState).err # NoError \/ ~redisUp
       THEN /\ storeRet' = [NoReturn EXCEPT
                              !.op = "Save", !.sid = sid, !.err = Marshal(sessionState).err,
                              !.key = IF Marshal(sessionState).err = NoError
                                      THEN getRedisKey(sid) ELSE <<>>,
                              !.state = sessionState]
            /\ UNCHANGED storeCalls
       ELSE /\ storeCalls' = [storeCalls EXCEPT ![p] =
                                [NoPipe EXCEPT !.op = "Save", !.pc = "sent", !.sid = sid,
                                               !.state = sessionState]]
            /\ storeRet' = NoReturn
    /\ UNCHANGED <<redisData, redisUp, sessionOut, saved, idle, signerVars, sessionVars>>

\* the server runs the SET of a Save
ServerSet ==
  \E p \in Goroutines :
    /\ storeCalls[p].op = "Save"
    /\ storeCalls[p].pc = "sent"
    /\ redisData' = RedisSet(redisData, getRedisKey(storeCalls[p].sid),
                             Marshal(storeCalls[p].state).b, SessionDuration)
    /\ storeCalls' = [storeCalls EXCEPT ![p].pc = "done"]
    /\ storeRet' = NoReturn
    /\ saved' = [saved EXCEPT ![storeCalls[p].sid] = storeCalls[p].state]
    /\ idle' = [idle EXCEPT ![storeCalls[p].sid] = JustUsed]
    /\ UNCHANGED <<redisUp, storeStarted, sessionOut, signerVars, sessionVars>>

\* Client.Set has read the reply, its result is dropped; Save returns nil
SaveReturn ==
  \E p \in Goroutines :
    /\ storeCalls[p].op = "Save"
    /\ storeCalls[p].pc = "done"
    /\ storeRet' = [NoReturn EXCEPT !.op = "Save", !.sid = storeCalls[p].sid,
                                    !.key = getRedisKey(storeCalls[p].sid),
                                    !.state = storeCalls[p].state, !.reached = TRUE]
    /\ storeCalls' = [storeCalls EXCEPT ![p] = NoPipe]
    /\ UNCHANGED <<redisData, redisUp, storeStarted, sessionOut, saved, idle, signerVars,
                   sessionVars>>

\* RedisStore.Delete(sid) is called: Client.Del sends DEL and waits for the
\* reply. With the server out of reach Client.Del fails at once, its result
\* is dropped and Delete returns nil
Delete ==
  \E p \in Goroutines, sid \in StoreSIDs :
    /\ MayCall(p)
    /\ storeStarted' = storeStarted + 1
    /\ IF ~redisUp
       THEN /\ storeRet' = [NoReturn EXCEPT
                              !.op = "Delete", !.sid = sid, !.key = getRedisKey(sid),
                              !.absent = ~redisData[getRedisKey(sid)].present]
            /\ UNCHANGED storeCalls
       ELSE /\ storeCalls' = [storeCalls EXCEPT ![p] =
                                [NoPipe EXCEPT !.op = "Delete", !.pc = "sent", !.sid = sid]]
            /\ storeRet' = NoReturn
    /\ UNCHANGED <<redisData, redisUp, sessionOut, saved, idle, signerVars, sessionVars>>

\* the server runs the DEL of a Delete
ServerDel ==
  \E p \in Goroutines :
    /\ storeCalls[p].op = "Delete"
    /\ storeCalls[p].pc = "sent"
    /\ redisData' = RedisDel(redisData, getRedisKey(storeCalls[p].sid))
    /\ storeCalls' = [storeCalls EXCEPT
                        ![p].pc = "done",
                        ![p].absent = ~redisData[getRedisKey(storeCalls[p].sid)].present]
    /\ storeRet' = NoReturn
    /\ saved' = [saved EXCEPT ![storeCalls[p].sid] = NoSave]
    /\ idle' = [idle EXCEPT ![storeCalls[p].sid] = NeverUsed]
    /\ UNCHANGED <<redisUp, storeStarted, sessionOut, signerVars, sessionVars>>

\* Client.Del has read the reply, its result is dropped; Delete returns nil
DeleteReturn ==
  \E p \in Goroutines :
    /\ storeCalls[p].op = "Delete"
    /\ storeCalls[p].pc = "done"
    /\ storeRet' = [NoReturn EXCEPT !.op = "Delete", !.sid = storeCalls[p].sid,
                                    !.key = getRedisKey(storeCalls[p].sid),
                                    !.absent = storeCalls[p].absent, !.reached = TRUE]
    /\ storeCalls' = [storeCalls EXCEPT ![p] = NoPipe]
    /\ UNCHANGED <<redisData, redisUp, storeStarted, sessionOut, saved, idle, signerVars,
                   sessionVars>>

\* RedisStore.Get(sid, sessionState), the server out of reach: Exec fails
GetUnreachable ==
  \E p \in Goroutines, sid \in StoreSIDs :
    /\ MayCall(p)
    /\ ~redisUp
    /\ storeStarted' = storeStarted + 1
    /\ storeRet' = [NoReturn EXCEPT !.op = "Get", !.sid = sid, !.err = ErrDial,
                                    !.key = getRedisKey(sid),
                                    !.outBefore = sessionOut[p], !.out = sessionOut[p]]
    /\ UNCHANGED <<redisData, redisUp, storeCalls, sessionOut, saved, idle, signerVars,
                   sessionVars>>

\* RedisStore.Get(sid, sessionState): Exec sends GET and EXPIRE in one
\* pipeline, not in a transaction
GetSend ==
  \E p \in Goroutines, sid \in StoreSIDs :
    /\ MayCall(p)
    /\ redisUp
    /\ storeStarted' = storeStarted + 1
    /\ storeCalls' = [storeCalls EXCEPT ![p] =
                        [NoPipe EXCEPT !.op = "Get", !.pc = "sent", !.sid = sid,
                                       !.absent = ~redisData[getRedisKey(sid)].present,
                                       !.outBefore = sessionOut[p]]]
    /\ storeRet' = NoReturn
    /\ UNCHANGED <<redisData, redisUp, sessionOut, saved, idle, signerVars, sessionVars>>

\* the server runs the pipeline's GET
ServerGet ==
  \E p \in Goroutines :
    /\ storeCalls[p].op = "Get"
    /\ storeCalls[p].pc = "sent"
    /\ storeCalls' = [storeCalls EXCEPT
                        ![p].pc = "read",
                        ![p].getReply = RedisGet(redisData, getRedisKey(storeCalls[p].sid)),
                        ![p].expected = saved[storeCalls[p].sid],
                        ![p].absent = @ /\ ~redisData[getRedisKey(storeCalls[p].sid)].present]
    /\ storeRet' = NoReturn
    /\ idle' = IF /\ redisData[getRedisKey(storeCalls[p].sid)].present
                  /\ Unmarshal(redisData[getRedisKey(storeCalls[p].sid)].val,
                               sessionOut[p]).err = NoError
               THEN [idle EXCEPT ![storeCalls[p].sid].use = 0]
               ELSE idle
    /\ UNCHANGED <<redisData, redisUp, storeStarted, sessionOut, saved, signerVars,
                   sessionVars>>

\* the server runs the pipeline's EXPIRE
ServerExpire ==
  \E p \in Goroutines :
    /\ storeCalls[p].op = "Get"
    /\ storeCalls[p].pc = "read"
    /\ redisData' = RedisExpire(redisData, getRedisKey(storeCalls[p].sid), SessionDuration)
    /\ storeCalls' = [storeCalls EXCEPT
                        ![p].pc = "done",
                        ![p].expireReply =
                          RedisExpireReply(redisData, getRedisKey(storeCalls[p].sid)),
                        ![p].ttlBefore = redisData[getRedisKey(storeCalls[p].sid)].ttl,
                        ![p].ttlAfter = redisData'[getRedisKey(storeCalls[p].sid)].ttl,
                        ![p].absent = @ /\ ~redisData[getRedisKey(storeCalls[p].sid)].present]
    /\ storeRet' = NoReturn
    /\ idle' = IF ~RedisExpireReply(redisData, getRedisKey(storeCalls[p].sid)) THEN idle
               ELSE IF /\ storeCalls[p].getReply.err = NoError
                       /\ Unmarshal(storeCalls[p].getReply.val, sessionOut[p]).err = NoError
                    THEN [idle EXCEPT ![storeCalls[p].sid] = JustUsed]
                    ELSE [idle EXCEPT ![storeCalls[p].sid].any = 0]
    /\ UNCHANGED <<redisUp, storeStarted, sessionOut, saved, signerVars, sessionVars>>

\* Exec returns the first error among the replies; then pipe.Result() and
\* json.Unmarshal
GetReturn ==
  \E p \in Goroutines :
    /\ storeCalls[p].op = "Get"
    /\ storeCalls[p].pc = "done"
    /\ sessionOut' = IF storeCalls[p].getReply.err # NoError THEN sessionOut
                     ELSE [sessionOut EXCEPT
                             ![p] = Unmarshal(storeCalls[p].getReply.val, sessionOut[p]).v]
    /\ storeRet' = [NoReturn EXCEPT
                      !.op = "Get", !.sid = storeCalls[p].sid,
                      !.err = IF storeCalls[p].getReply.err # NoError
                              THEN storeCalls[p].getReply.err
                              ELSE Unmarshal(storeCalls[p].getReply.val, sessionOut[p]).err,
                      !.reached = TRUE,
                      !.key = getRedisKey(storeCalls[p].sid),
                      !.absent = storeCalls[p].absent
                                   /\ ~redisData[getRedisKey(storeCalls[p].sid)].present,
                      !.expireReply = storeCalls[p].expireReply,
                      !.ttlBefore = storeCalls[p].ttlBefore,
                      !.ttlAfter = storeCalls[p].ttlAfter,
                      !.expected = storeCalls[p].expected,
                      !.outBefore = storeCalls[p].outBefore,
                      !.out = sessionOut'[p]]
    /\ storeCalls' = [storeCalls EXCEPT ![p] = NoPipe]
    /\ UNCHANGED <<redisData, redisUp, storeStarted, saved, idle, signerVars, sessionVars>>

\* time passes on the server
Tick ==
  /\ \E k \in DOMAIN redisData : redisData[k].present
  /\ redisData' = RedisTick(redisData)
  /\ storeRet' = NoReturn
  /\ saved' = [sid \in StoreSIDs |->
                IF redisData'[getRedisKey(sid)].present THEN saved[sid] ELSE NoSave]
  /\ idle' = [sid \in StoreSIDs |->
               [use |-> Older(idle[sid].use), any |-> Older(idle[sid].any),
                expired |-> \/ idle[sid].expired
                            \/ /\ redisData[getRedisKey(sid)].present
                               /\ ~redisData'[getRedisKey(sid)].present]]
  /\ UNCHANGED <<redisUp, storeCalls, storeStarted, sessionOut, signerVars, sessionVars>>

\* another application of the same server writes under a key
ForeignSet ==
  \E sid \in StoreSIDs :
    /\ redisUp
    /\ redisData' = RedisSet(redisData, getRedisKey(sid), ForeignValue, SessionDuration)
    /\ storeRet' = NoReturn
    /\ saved' = [saved EXCEPT ![sid] = NoSave]
    /\ idle' = [idle EXCEPT ![sid].any = 0, ![sid].expired = FALSE]
    /\ UNCHANGED <<redisUp, storeCalls, storeStarted, sessionOut, signerVars, sessionVars>>

\* the server goes out of reach while no call waits for it, comes back
ServerDown ==
  /\ redisUp
  /\ \A p \in Goroutines : storeCalls[p].pc = "idle"
  /\ redisUp' = FALSE
  /\ storeRet' = NoReturn
  /\ UNCHANGED <<redisData, storeCalls, storeStarted, sessionOut, saved, idle, signerVars,
                 sessionVars>>

ServerUp ==
  /\ ~redisUp
  /\ redisUp' = TRUE
  /\ storeRet' = NoReturn
  /\ UNCHANGED <<redisData, storeCalls, storeStarted, sessionOut, saved, idle, signerVars,
                 sessionVars>>

(***************************************************************************)
(* The request handlers: GetSessionID, GetState, EndSession, BeginSession. *)
(* A request is the value of its Authorization header and of its "auth"    *)
(* query parameter, "" when absent; texts are sequences of characters.     *)
(***************************************************************************)
ErrNoSessionID == "no session ID found in Authorization header"
ErrInvalidScheme == "authorization scheme not supported"

schemeBearer == <<"B", "e", "a", "r", "e", "r", " ">>

\* the literal "Bearer" the scheme is compared with
Bearer == <<"B", "e", "a", "r", "e", "r">>

\* strings.Split(str, " "): the texts between the spaces, one more than there
\* are spaces
SpacesOf(str) == {i \in 1..Len(str) : str[i] = " "}

NthSpace(str, n) ==
  CHOOSE i \in SpacesOf(str) : Cardinality({j \in SpacesOf(str) : j < i}) = n - 1

Split(str) ==
  [n \in 1..(Cardinality(SpacesOf(str)) + 1) |->
     SubSeq(str,
            IF n = 1 THEN 1 ELSE NthSpace(str, n - 1) + 1,
            IF n = Cardinality(SpacesOf(str)) + 1 THEN Len(str)
            ELSE NthSpace(str, n) - 1)]

\* the credential GetSessionID looks at: the header, else the parameter
CredentialOf(r) == IF Len(r.header) = 0 THEN r.query ELSE r.header

\* what GetSessionID returns once ValidateID(id, signingKey) gave v
AfterValidateID(id, v) ==
  IF v.panic # NoPanic
  THEN [sid |-> InvalidSessionID, err |-> NoError, panic |-> v.panic,
        validateCalls |-> <<id>>]
  ELSE IF v.err # NoError
  THEN [sid |-> InvalidSessionID, err |-> v.err, panic |-> NoPanic, validateCalls |-> <<id>>]
  ELSE [sid |-> v.sid, err |-> NoError, panic |-> NoPanic, validateCalls |-> <<id>>]

NotValidatedWith(err) ==
  [sid |-> InvalidSessionID, err |-> err, panic |-> NoPanic, validateCalls |-> <<>>]

\* fault: the switch without the comparison of the scheme
SwitchOnPartsAnyScheme(s, signingKey) ==
  IF Len(s) <= 1 THEN NotValidatedWith(ErrNoSessionID)
  ELSE IF Len(s) = 2
  THEN AfterValidateID(s[Len(s)], ValidateID(s[Len(s)], signingKey))
  ELSE NotValidatedWith(ErrInvalidScheme)

\* switch len(s): the cases 0 and 1, 2, and default
SwitchOnParts(s, signingKey) ==
  IF Len(s) <= 1 THEN NotValidatedWith(ErrNoSessionID)
  ELSE IF Len(s) = 2
  THEN IF s[1] # Bearer THEN NotValidatedWith(ErrInvalidScheme)
       ELSE AfterValidateID(s[Len(s)], ValidateID(s[Len(s)], signingKey))
  ELSE NotValidatedWith(ErrInvalidScheme)

\* GetSessionID(r, signingKey): [sid, err, panic, validateCalls (the texts
\* handed to ValidateID)]
GetSessionID(r, signingKey) == SwitchOnParts(Split(CredentialOf(r)), signingKey)

\* the signing keys BeginSession is called with: "k", and none; the other
\* handlers are called with "k"
HandlerKeys == {<<107>>, <<>>}

ServerKeys == {<<107>>}

\* the tokens issued under "k"
ServerTokens == {newSessionIDResults[<<107>>, rnd].sid : rnd \in RandomDraws}

\* credential values: "Bearer <token>"; no value; the scheme alone; and for
\* the tokens issued under "k": the token alone, other schemes, a third
\* part, two spaces
Credentials ==
  {schemeBearer \o tok : tok \in SessionTokens}
    \cup {<<>>, Bearer}
    \cup ServerTokens
    \cup {<<"B", "a", "s", "i", "c", " ">> \o tok : tok \in ServerTokens}
    \cup {<<"b", "e", "a", "r", "e", "r", " ">> \o tok : tok \in ServerTokens}
    \cup {schemeBearer \o tok \o <<" ", "x">> : tok \in ServerTokens}
    \cup {schemeBearer \o <<" ">> \o tok : tok \in ServerTokens}

\* requests: the credential in the header; a credential of a token issued
\* under "k" in the parameter; another scheme in the header and a Bearer
\* credential in the parameter
Requests ==
  {[header |-> c, query |-> <<>>] : c \in Credentials}
    \cup {[header |-> <<>>, query |-> schemeBearer \o tok] : tok \in ServerTokens}
    \cup {[header |-> <<>>, query |-> tok] : tok \in ServerTokens}
    \cup {[header |-> <<"B", "a", "s", "i", "c", " ">> \o tok, query |-> schemeBearer \o tok] :
            tok \in ServerTokens}

\* GetSessionID on every request and key of the model
getSessionIDResults ==
  [r \in Requests, key \in ServerKeys |-> GetSessionID(r, key)]

\* the handler calls of a run
MaxCalls == 2

NoRequest == [header |-> <<>>, query |-> <<>>]

\* a goroutine that serves no request; one that does is in fn, waiting for
\* the server: pc is "sent" (its commands are on the way), "read" (the
\* pipeline's GET has run) or "done" (the reply is on the way back); reply is
\* the reply to GET, changed whether its commands changed the keyspace
NoFlight ==
  [fn |-> "none", pc |-> "idle", r |-> NoRequest, key |-> <<>>, sid |-> InvalidSessionID,
   state |-> ZeroState, reply |-> NoReply, changed |-> FALSE]

\* no handler call ended in the last step; extracted is what GetSessionID
\* gave the handler, storeOps the calls of the store it made, changed
\* whether its commands changed the keyspace
NoCall ==
  [fn |-> "none", r |-> NoRequest, key |-> <<>>, sid |-> InvalidSessionID, err |-> NoError,
   panic |-> NoPanic, extracted |-> NotValidatedWith(NoError), storeOps |-> <<>>,
   changed |-> FALSE, header |-> <<>>]

InitSession ==
  /\ handlerRet = NoCall
  /\ inflight = [p \in Goroutines |-> NoFlight]
  /\ started = 0

\* the issued identifier a text is, if any
OriginOf(id, signingKey) ==
  IF [sid |-> id, key |-> signingKey] \in issued THEN [sid |-> id, key |-> signingKey]
  ELSE NoOrigin

\* the call of ValidateID that GetSessionID made, if it made one
ValidatedBy(signingKey, ext) ==
  IF ext.validateCalls = <<>> THEN validated
  ELSE [NotValidated EXCEPT !.called = TRUE, !.id = ext.validateCalls[1],
                            !.key = signingKey, !.sid = ext.sid, !.err = ext.err,
                            !.panic = ext.panic,
                            !.origin = OriginOf(ext.validateCalls[1], signingKey)]

\* GetState and EndSession up to the call of the store: ext is what
\* GetSessionID gave. The handler returns its error (or panics); with a SID,
\* store.Get or store.Delete sends its commands and waits for the server
HandlerStarts(fn, r, signingKey, ext) ==
  \E p \in Goroutines :
    /\ inflight[p].pc = "idle"
    /\ started < MaxCalls
    /\ started' = started + 1
    /\ validated' = ValidatedBy(signingKey, ext)
    /\ IF ext.panic # NoPanic \/ ext.err # NoError
       THEN /\ handlerRet' = [NoCall EXCEPT !.fn = fn, !.r = r, !.key = signingKey,
                                            !.err = ext.err, !.panic = ext.panic,
                                            !.extracted = ext]
            /\ UNCHANGED inflight
       ELSE /\ inflight' = [inflight EXCEPT ![p] =
                              [NoFlight EXCEPT !.fn = fn, !.pc = "sent", !.r = r,
                                               !.key = signingKey, !.sid = ext.sid]]
            /\ handlerRet' = NoCall
    /\ UNCHANGED <<generatedSID, issued, minted, storeVars>>

\* GetState(r, signingKey, store, sessionState) is called
GetStateCall ==
  \E r \in Requests, signingKey \in ServerKeys :
    HandlerStarts("GetState", r, signingKey, getSessionIDResults[r, signingKey])

\* EndSession(r, signingKey, store) is called
EndSessionCall ==
  \E r \in Requests, signingKey \in ServerKeys :
    HandlerStarts("EndSession", r, signingKey, getSessionIDResults[r, signingKey])

\* the server runs the GET of a GetState's pipeline
SessionServerGet ==
  \E p \in Goroutines :
    /\ inflight[p].fn = "GetState"
    /\ inflight[p].pc = "sent"
    /\ inflight' = [inflight EXCEPT
                      ![p].pc = "read",
                      ![p].reply = RedisGet(redisData, getRedisKey(inflight[p].sid))]
    /\ handlerRet' = NoCall
    /\ UNCHANGED <<started, storeVars, signerVars>>

\* the server runs the EXPIRE of a GetState's pipeline
SessionServerExpire ==
  \E p \in Goroutines :
    /\ inflight[p].fn = "GetState"
    /\ inflight[p].pc = "read"
    /\ redisData' = RedisExpire(redisData, getRedisKey(inflight[p].sid), SessionDuration)
    /\ inflight' = [inflight EXCEPT ![p].pc = "done",
                                    ![p].changed = (redisData' # redisData)]
    /\ handlerRet' = NoCall
    /\ UNCHANGED <<started, redisUp, storeCalls, storeStarted, sessionOut, storeRet, saved, idle, signerVars>>

\* store.Get returns: Exec's error (the reply to GET of a key without entry
\* is redis.Nil), else json.Unmarshal into sessionState; GetState returns
GetStateReturn ==
  \E p \in Goroutines :
    /\ inflight[p].fn = "GetState"
    /\ inflight[p].pc = "done"
    /\ sessionOut' = IF inflight[p].reply.err # NoError THEN sessionOut
                     ELSE [sessionOut EXCEPT
                             ![p] = Unmarshal(inflight[p].reply.val, sessionOut[p]).v]
    /\ handlerRet' =
         [NoCall EXCEPT
            !.fn = "GetState", !.r = inflight[p].r, !.key = inflight[p].key,
            !.err = IF inflight[p].reply.err # NoError THEN inflight[p].reply.err
                    ELSE Unmarshal(inflight[p].reply.val, sessionOut[p]).err,
            !.sid = IF \/ inflight[p].reply.err # NoError
                       \/ Unmarshal(inflight[p].reply.val, sessionOut[p]).err # NoError
                    THEN InvalidSessionID ELSE inflight[p].sid,
            !.extracted = getSessionIDResults[inflight[p].r, inflight[p].key],
            !.storeOps = <<[op |-> "Get", sid |-> inflight[p].sid]>>,
            !.changed = inflight[p].changed]
    /\ inflight' = [inflight EXCEPT ![p] = NoFlight]
    /\ UNCHANGED <<started, redisData, redisUp, storeCalls, storeStarted, storeRet, saved, idle, signerVars>>

\* the server runs the DEL of an EndSession's store.Delete
SessionServerDel ==
  \E p \in Goroutines :
    /\ inflight[p].fn = "EndSession"
    /\ inflight[p].pc = "sent"
    /\ redisData' = RedisDel(redisData, getRedisKey(inflight[p].sid))
    /\ inflight' = [inflight EXCEPT ![p].pc = "done",
                                    ![p].changed = (redisData' # redisData)]
    /\ handlerRet' = NoCall
    /\ UNCHANGED <<started, redisUp, storeCalls, storeStarted, sessionOut, storeRet, saved, idle, signerVars>>

\* store.Delete returns nil, EndSession returns the SID
EndSessionReturn ==
  \E p \in Goroutines :
    /\ inflight[p].fn = "EndSession"
    /\ inflight[p].pc = "done"
    /\ handlerRet' =
         [NoCall EXCEPT
            !.fn = "EndSession", !.r = inflight[p].r, !.key = inflight[p].key,
            !.sid = inflight[p].sid,
            !.extracted = getSessionIDResults[inflight[p].r, inflight[p].key],
            !.storeOps = <<[op |-> "Delete", sid |-> inflight[p].sid]>>,
            !.changed = inflight[p].changed]
    /\ inflight' = [inflight EXCEPT ![p] = NoFlight]
    /\ UNCHANGED <<started, storeVars, signerVars>>

\* BeginSession up to the wait for the server: m is what NewSessionID gave,
\* which has written generatedSID when it gave a SID. BeginSession returns
\* NewSessionID's error, or json.Marshal's error from store.Save; else
\* store.Save sends SET and waits for the server
BeginSessionStarts(signingKey, m, sessionState) ==
  \E p \in Goroutines :
    /\ inflight[p].pc = "idle"
    /\ started < MaxCalls
    /\ started' = started + 1
    /\ m.err = NoError => Cardinality(issued \cup {[sid |-> m.sid, key |-> signingKey]}) <= MaxIssued
    /\ generatedSID' = IF m.assigned THEN m.sid ELSE generatedSID
    /\ issued' = IF m.err = NoError THEN issued \cup {[sid |-> m.sid, key |-> signingKey]}
                 ELSE issued
    /\ minted' = [NotMinted EXCEPT !.called = TRUE, !.key = signingKey, !.sid = m.sid,
                                   !.err = m.err, !.randRead = m.randRead]
    /\ IF m.err # NoError
       THEN /\ handlerRet' = [NoCall EXCEPT !.fn = "BeginSession", !.key = signingKey,
                                            !.err = m.err]
            /\ UNCHANGED inflight
       ELSE IF Marshal(sessionState).err # NoError
       THEN /\ handlerRet' = [NoCall EXCEPT !.fn = "BeginSession", !.key = signingKey,
                                            !.err = Marshal(sessionState).err,
                                            !.storeOps = <<[op |-> "Save", sid |-> m.sid]>>]
            /\ UNCHANGED inflight
       ELSE /\ inflight' = [inflight EXCEPT ![p] =
                              [NoFlight EXCEPT !.fn = "BeginSession", !.pc = "sent",
                                               !.key = signingKey, !.sid = m.sid,
                                               !.state = sessionState]]
            /\ handlerRet' = NoCall
    /\ UNCHANGED <<validated, storeVars>>

\* BeginSession(signingKey, store, sessionState, w) is called, rnd being what
\* rand.Read does
BeginSessionCall ==
  \E signingKey \in HandlerKeys, rnd \in RandomDraws \cup {RandReadFailure},
     sessionState \in SavedStates :
    BeginSessionStarts(signingKey, newSessionIDResults[signingKey, rnd], sessionState)

\* the server runs the SET of a BeginSession's store.Save
SessionServerSet ==
  \E p \in Goroutines :
    /\ inflight[p].fn = "BeginSession"
    /\ inflight[p].pc = "sent"
    /\ redisData' = RedisSet(redisData, getRedisKey(inflight[p].sid),
                             Marshal(inflight[p].state).b, SessionDuration)
    /\ inflight' = [inflight EXCEPT ![p].pc = "done",
                                    ![p].changed = (redisData' # redisData)]
    /\ handlerRet' = NoCall
    /\ UNCHANGED <<started, redisUp, storeCalls, storeStarted, sessionOut, storeRet, saved, idle, signerVars>>

\* store.Save returns nil; BeginSession adds the Authorization header to the
\* response and returns the SID
BeginSessionReturn ==
  \E p \in Goroutines :
    /\ inflight[p].fn = "BeginSession"
    /\ inflight[p].pc = "done"
    /\ handlerRet' =
         [NoCall EXCEPT
            !.fn = "BeginSession", !.key = inflight[p].key, !.sid = inflight[p].sid,
            !.storeOps = <<[op |-> "Save", sid |-> inflight[p].sid]>>,
            !.changed = inflight[p].changed,
            !.header = <<schemeBearer \o inflight[p].sid>>]
    /\ inflight' = [inflight EXCEPT ![p] = NoFlight]
    /\ UNCHANGED <<started, storeVars, signerVars>>

\* time passes on the server
SessionTick ==
  /\ \E k \in DOMAIN redisData : redisData[k].present
  /\ redisData' = RedisTick(redisData)
  /\ handlerRet' = NoCall
  /\ UNCHANGED <<redisUp, storeCalls, storeStarted, sessionOut, storeRet, saved, idle, signerVars, inflight, started>>

(***************************************************************************)
(* Properties of the signer.                                               *)
(***************************************************************************)
\* the last ValidateID call was on an issued identifier, as it is
OnIssued == validated.called /\ validated.origin # NoOrigin /\ validated.bits = NoTamper

\* the last ValidateID call was on an issued identifier with one bit changed,
\* under the key it was issued with
OnTampered == validated.called /\ validated.origin # NoOrigin /\ validated.bits # NoTamper

Rejected == validated.panic = NoPanic /\ validated.err # NoError /\ validated.sid = InvalidSessionID

\* C1: an identifier issued under a non-empty key, with any single bit of its
\* decoded bytes changed (random component or signature) and encoded again,
\* is rejected with an error by ValidateID under the same key.
TamperSensitivity == OnTampered => Rejected

\* C2: an identifier NewSessionID returned without error under a non-empty
\* key is accepted by ValidateID under that key: no error, and the SID
\* returned is the identifier's text.
RoundTrip ==
  (OnIssued /\ validated.key = validated.origin.key)
    => (validated.panic = NoPanic /\ validated.err = NoError
        /\ validated.sid = validated.origin.sid)

RoundTripWitness ==
  /\ OnIssued
  /\ validated.key = validated.origin.key
  /\ validated.err = NoError
  /\ validated.sid = validated.id
  /\ Len(validated.sid) = EncodedLen(idLength + Len(GenerateRandomHMAC(validated.key)))

\* C3, as stated: an identifier issued under key K1 is rejected with an
\* error by ValidateID under any other non-empty key K2.
KeySensitivity ==
  (OnIssued /\ validated.key # <<>> /\ validated.key # validated.origin.key) => Rejected

\* C3, amended: an identifier issued under key K1 is rejected with an error
\* by ValidateID under every non-empty key K2 whose HMAC block key (the key
\* padded with zero bytes to 64 bytes, hashed first when longer) differs
\* from that of K1.
KeySensitivityBlockKey ==
  (OnIssued /\ validated.key # <<>>
     /\ HmacBlockKey(validated.key) # HmacBlockKey(validated.origin.key))
    => Rejected

KeySensitivityWitness ==
  /\ OnIssued
  /\ validated.key = <<106>>
  /\ validated.origin.key = <<107>>
  /\ validated.err = ErrHmacNotEqual

\* C4: ValidateID returns to its caller for every text and key: it never
\* panics.
ValidateIDNeverPanics == validated.called => validated.panic = NoPanic

\* the text is not URL-safe base64, or decodes to other than the idLength
\* random bytes followed by a digest
IsMalformed(id, signingKey) ==
  \/ DecodeString(id).err
  \/ Len(DecodeString(id).b) # idLength + Len(GenerateRandomHMAC(signingKey))

\* C5: for a text that is not URL-safe base64 or whose decoded length is not
\* 32 + 32 bytes, ValidateID returns InvalidSessionID and the malformed-token
\* error, which is not the signature-mismatch error.
MalformedRejected ==
  (validated.called /\ IsMalformed(validated.id, validated.key))
    => (Rejected /\ validated.err = ErrCorruptInput)

\* C6: NewSessionID with the empty key returns InvalidSessionID and a
\* non-nil error and asks rand.Read for no bytes, on every call, whatever
\* calls came before.
EmptyKeyRejected ==
  (minted.called /\ minted.key = <<>>)
    => (minted.sid = InvalidSessionID /\ minted.err # NoError /\ minted.randRead = 0)

EmptyKeyRejectedWitness ==
  /\ minted.called
  /\ minted.key = <<>>
  /\ minted.err = ErrNotSigningKey
  /\ issued # {}
  /\ generatedSID # InvalidSessionID

\* C7: what the last ValidateID call returned is what ValidateID returns on
\* the same text and key in every state reached afterwards, whatever
\* generatedSID has become and whether or not the text was issued here.
ValidationStateless ==
  validated.called =>
    LET r == ValidateID(validated.id, validated.key)
    IN  r.sid = validated.sid /\ r.err = validated.err /\ r.panic = validated.panic

ValidationStatelessWitness ==
  /\ validated.called
  /\ validated.err = NoError
  /\ generatedSID # InvalidSessionID
  /\ generatedSID # validated.id
  /\ minted.called /\ minted.err = NoError

\* the decoded bytes of an issued identifier: its random part and its signature
RandomPart(tok) == SubSeq(DecodeSessionID(tok.sid).b, 1, idLength)

SignaturePart(tok) ==
  SubSeq(DecodeSessionID(tok.sid).b, idLength + 1, Len(DecodeSessionID(tok.sid).b))

\* C14: every identifier NewSessionID(key) returned without error decodes to
\* idLength random bytes followed by the HMAC-SHA256, keyed with key, of those
\* random bytes; so two identifiers minted under the same key with different
\* random parts carry different signatures.
SignatureCoversRandom ==
  /\ \A tok \in issued :
       /\ Len(DecodeSessionID(tok.sid).b) = idLength + Len(SignaturePart(tok))
       /\ SignaturePart(tok) = HmacSha256(tok.key, RandomPart(tok))
  /\ \A tok \in issued, other \in issued :
       (tok.key = other.key /\ RandomPart(tok) # RandomPart(other))
         => SignaturePart(tok) # SignaturePart(other)

(***************************************************************************)
(* Properties of the store.                                                *)
(***************************************************************************)
\* C8: a Get of a SID that has no entry (at no step of the call) returns
\* ErrStateNotFound, leaves the caller's output as it was and leaves the
\* store without an entry for the SID.
GetMissingNotFound ==
  (storeRet.op = "Get" /\ storeRet.reached /\ storeRet.absent)
    => /\ storeRet.err = ErrStateNotFound
       /\ storeRet.out = storeRet.outBefore
       /\ ~redisData[getRedisKey(storeRet.sid)].present

\* C9: when Save returns nil the store holds, at that moment, an entry for
\* the SID with the serialized state, and when the server was not reached
\* Save returns a non-nil error.
SaveNeverDrops ==
  storeRet.op = "Save" =>
    /\ storeRet.err = NoError =>
         /\ redisData[getRedisKey(storeRet.sid)].present
         /\ redisData[getRedisKey(storeRet.sid)].val = Marshal(storeRet.state).b
    /\ ~storeRet.reached => storeRet.err # NoError

\* C10: the read and the refresh of a Get are one step: when the GET of the
\* call found a payload its EXPIRE found the entry too, so a Get that
\* returns the payload without error has refreshed the entry it read.
GetRefreshAtomic ==
  /\ \A p \in Goroutines :
       (storeCalls[p].op = "Get" /\ storeCalls[p].pc = "done"
          /\ storeCalls[p].getReply.err = NoError) => storeCalls[p].expireReply
  /\ (storeRet.op = "Get" /\ storeRet.err = NoError) => storeRet.expireReply

\* C11: immediately after a Get that returns without error the entry's time
\* to live is the full SessionDuration, whatever it was before the Get.
GetRefreshesTTL ==
  (storeRet.op = "Get" /\ storeRet.err = NoError) => storeRet.ttlAfter = SessionDuration

\* The refresh itself: an EXPIRE that finds the entry sets its time to live
\* to the full SessionDuration; what fails in GetRefreshesTTL is only the Get
\* whose entry went away between the pipeline's GET and its EXPIRE.
GetRefreshesFoundEntry ==
  /\ \A p \in Goroutines :
       (storeCalls[p].op = "Get" /\ storeCalls[p].pc = "done" /\ storeCalls[p].expireReply)
         => storeCalls[p].ttlAfter = SessionDuration
  /\ (storeRet.op = "Get" /\ storeRet.err = NoError /\ storeRet.expireReply)
       => storeRet.ttlAfter = SessionDuration

GetRefreshesWitness ==
  /\ storeRet.op = "Get"
  /\ storeRet.err = NoError
  /\ storeRet.expireReply
  /\ storeRet.ttlBefore > 0
  /\ storeRet.ttlBefore < SessionDuration
  /\ storeRet.ttlAfter = SessionDuration

\* C19: a Get that returns an error (entry missing, payload not
\* deserializable, server out of reach) has left the entry's time to live as
\* it was: the EXPIRE of that Get changed nothing.
FailedGetChangesNothing ==
  (storeRet.op = "Get" /\ storeRet.err # NoError)
    => storeRet.ttlAfter = storeRet.ttlBefore

\* the prefix the comment of getRedisKey announces
sidPrefix == <<"s", "i", "d", ":">>

HasSidPrefix(k) ==
  Len(k) >= Len(sidPrefix) /\ SubSeq(k, 1, Len(sidPrefix)) = sidPrefix

\* C18: the key that Save, Get and Delete hand to the backing service is the
\* SID's text preceded by the literal prefix "sid:", so no session operation
\* touches a key without that prefix.
KeyNamespaced ==
  (storeRet.op \in {"Save", "Get", "Delete"} /\ storeRet.key # <<>>)
    => /\ HasSidPrefix(storeRet.key)
       /\ storeRet.key = sidPrefix \o storeRet.sid

vars == <<signerVars, storeVars, sessionVars>>

\* C12: a Get(sid) whose GET ran while a Save(sid, s) was on record (the
\* last one for sid, reached the server, not deleted and not expired since)
\* returns nil and fills the output with exactly s, whatever was saved under
\* other SIDs in between.
SaveThenGet ==
  (storeRet.op = "Get" /\ storeRet.expected # NoSave)
    => /\ storeRet.err = NoError
       /\ storeRet.out = storeRet.expected

\* such a Get has returned: it replaced the output by the state saved for its
\* SID while another state is saved under the other SID
SaveThenGetWitness ==
  /\ storeRet.op = "Get"
  /\ storeRet.expected \in SessionStates
  /\ storeRet.outBefore # storeRet.expected
  /\ storeRet.out = storeRet.expected
  /\ \E sid \in StoreSIDs :
       sid # storeRet.sid /\ saved[sid] \in SessionStates \ {storeRet.expected}

\* the step in which the server runs the DEL of goroutine p's Delete
RanDel(p) ==
  /\ storeCalls[p].op = "Delete"
  /\ storeCalls[p].pc = "sent"
  /\ storeCalls'[p].pc = "done"

\* C13: Delete(sid) returns nil whether or not an entry for sid exists; the
\* DEL of a Delete leaves no entry for sid; run on a sid that has no entry
\* (so also that of a second Delete directly after the first) it leaves the
\* store as it is; it leaves the value and the time to live of the entry of
\* every other SID unchanged; and no other step of a Delete changes the
\* store.
DeleteIdempotentLocal ==
  [][/\ storeRet'.op = "Delete" => (storeRet'.err = NoError /\ redisData' = redisData)
     /\ \A p \in Goroutines :
          /\ (storeCalls[p].op # "Delete" /\ storeCalls'[p].op = "Delete")
               => redisData' = redisData
          /\ RanDel(p)
               => /\ ~redisData'[getRedisKey(storeCalls[p].sid)].present
                  /\ ~redisData[getRedisKey(storeCalls[p].sid)].present
                       => redisData' = redisData
                  /\ \A k \in DOMAIN redisData :
                       k # getRedisKey(storeCalls[p].sid)
                         => redisData'[k] = redisData[k]]_vars

\* a Delete of a sid without entry has returned, another SID's entry is there
DeleteIdempotentWitness ==
  /\ storeRet.op = "Delete"
  /\ storeRet.reached
  /\ storeRet.absent
  /\ storeRet.err = NoError
  /\ \E k \in DOMAIN redisData : k # storeRet.key /\ redisData[k].present

\* the entry of sid is in the keyspace
Present(sid) == redisData[getRedisKey(sid)].present

\* a step that removes the entry of sid, and is not the DEL of a Delete(sid)
ExpiryStep(sid) ==
  /\ Present(sid)
  /\ ~Present(sid)'
  /\ \A p \in Goroutines : ~(RanDel(p) /\ storeCalls[p].sid = sid)

\* C16: an entry is removed by expiry only when at least SessionDuration has
\* passed since the last Save(sid) or the last successful Get(sid) (a Get
\* that read the entry and returns nil), so an entry that gets a successful
\* Get at shorter intervals is never removed by expiry; no entry is there
\* SessionDuration after its last write or refresh; and an entry that is not
\* written or refreshed again is eventually removed.
SlidingWindow ==
  /\ [][\A sid \in StoreSIDs :
          ExpiryStep(sid) => idle'[sid].use >= SessionDuration]_vars
  /\ [](\A sid \in StoreSIDs : idle[sid].any >= SessionDuration => ~Present(sid))
  /\ \A sid \in StoreSIDs : []<>(~Present(sid) \/ idle[sid].any = 0)

\* C15: NewSessionID and ValidateID leave every process-wide variable of the
\* signer unchanged (so no two concurrent calls write the same variable), and
\* the process holds no record of an issued identifier.
SignerKeepsNoState ==
  /\ [][generatedSID' = generatedSID]_vars
  /\ [](generatedSID \notin {tok.sid : tok \in issued})

\* the last step was a handler call that ran GetSessionID on its request
RanGetSessionID == handlerRet.fn \in {"GetState", "EndSession"}

\* a credential value that is exactly "Bearer", one space, and a text
\* without space
BearerShaped(c) ==
  /\ Len(c) >= Len(schemeBearer)
  /\ SubSeq(c, 1, Len(schemeBearer)) = schemeBearer
  /\ \A i \in (Len(schemeBearer) + 1)..Len(c) : c[i] # " "

HasSpace(c) == \E i \in 1..Len(c) : c[i] = " "

\* C17: for every request whose credential value is not "Bearer" followed by
\* one token (another scheme, no scheme, more than two parts), GetSessionID
\* returns InvalidSessionID with ErrInvalidScheme and ValidateID is not
\* called.
NonBearerIsInvalidScheme ==
  (RanGetSessionID /\ ~BearerShaped(CredentialOf(handlerRet.r)))
    => /\ handlerRet.extracted.sid = InvalidSessionID
       /\ handlerRet.extracted.err = ErrInvalidScheme
       /\ handlerRet.extracted.validateCalls = <<>>

\* C17, amended: for every such request GetSessionID returns
\* InvalidSessionID and ValidateID is not called; the error is ErrNoSessionID
\* when the value has no space (no value, the scheme alone, a token alone)
\* and ErrInvalidScheme when it has another scheme or more than two parts.
NonBearerRejectedBeforeSigner ==
  (RanGetSessionID /\ ~BearerShaped(CredentialOf(handlerRet.r)))
    => /\ handlerRet.extracted.sid = InvalidSessionID
       /\ handlerRet.extracted.panic = NoPanic
       /\ handlerRet.extracted.validateCalls = <<>>
       /\ handlerRet.extracted.err =
            IF HasSpace(CredentialOf(handlerRet.r)) THEN ErrInvalidScheme
            ELSE ErrNoSessionID

\* a token that "k" signed, sent under another scheme, has been rejected
NonBearerRejectedWitness ==
  /\ RanGetSessionID
  /\ \E tok \in ServerTokens :
       /\ validateIDResults[tok, handlerRet.key].err = NoError
       /\ CredentialOf(handlerRet.r) = <<"B", "a", "s", "i", "c", " ">> \o tok
  /\ handlerRet.extracted.err = ErrInvalidScheme
  /\ handlerRet.err = ErrInvalidScheme
  /\ handlerRet.sid = InvalidSessionID

\* GetSessionID gave the handler a SID with nil error
Authenticated ==
  /\ handlerRet.extracted.err = NoError
  /\ handlerRet.extracted.panic = NoPanic
  /\ handlerRet.extracted.sid # InvalidSessionID

\* the handler issued store operations only for the SID GetSessionID gave
\* it with nil error, and none, leaving the keyspace as it was, otherwise
StoreOnlyAfterGetSessionID ==
  RanGetSessionID
    => /\ handlerRet.storeOps # <<>>
            => /\ Authenticated
               /\ \A i \in 1..Len(handlerRet.storeOps) :
                    handlerRet.storeOps[i].sid = handlerRet.extracted.sid
       /\ ~Authenticated => (handlerRet.storeOps = <<>> /\ ~handlerRet.changed)

\* the call returned (InvalidSessionID, non-nil error) or (a SID that
\* ValidateID accepts under the handler's key, nil)
ReturnsSidOrError ==
  /\ handlerRet.panic = NoPanic
  /\ \/ handlerRet.sid = InvalidSessionID /\ handlerRet.err # NoError
     \/ /\ handlerRet.sid # InvalidSessionID
        /\ handlerRet.err = NoError
        /\ validateIDResults[handlerRet.sid, handlerRet.key].err = NoError
        /\ validateIDResults[handlerRet.sid, handlerRet.key].panic = NoPanic

\* C20: GetState and EndSession invoke the store's Get and Delete only after
\* GetSessionID returned a SID with nil error for the same request; when
\* extraction or validation fails no store operation is issued, the store is
\* unchanged and the function returns InvalidSessionID with the error; and
\* every call returns (InvalidSessionID, non-nil error) or (a validated
\* non-empty SID, nil).
UnauthenticatedNeverTouchStore ==
  /\ StoreOnlyAfterGetSessionID
  /\ (RanGetSessionID /\ ~Authenticated)
       => /\ handlerRet.sid = InvalidSessionID
          /\ handlerRet.err # NoError
          /\ handlerRet.err = handlerRet.extracted.err
  /\ handlerRet.fn # "none" => ReturnsSidOrError

Init == InitSigner /\ InitStore /\ InitSession

Next ==
  \/ NewSessionIDCall
  \/ ValidateIssued
  \/ ValidateTampered
  \/ ValidateOther

Spec == Init /\ [][Next]_vars

StoreNext ==
  \/ Save
  \/ ServerSet
  \/ SaveReturn
  \/ Delete
  \/ ServerDel
  \/ DeleteReturn
  \/ GetUnreachable
  \/ GetSend
  \/ ServerGet
  \/ ServerExpire
  \/ GetReturn
  \/ Tick
  \/ ForeignSet
  \/ ServerDown
  \/ ServerUp

StoreSpec == Init /\ [][StoreNext]_vars

\* the server's clock does not stop
StoreFairSpec == StoreSpec /\ WF_vars(Tick)

SessionNext ==
  \/ BeginSessionCall
  \/ SessionServerSet
  \/ BeginSessionReturn
  \/ GetStateCall
  \/ SessionServerGet
  \/ SessionServerExpire
  \/ GetStateReturn
  \/ EndSessionCall
  \/ SessionServerDel
  \/ EndSessionReturn
  \/ SessionTick

SessionSpec == Init /\ [][SessionNext]_vars
====
